---- MODULE Spec2Model ----
(***************************************************************************)
(* Request routing and dispatch as exercised by src/src/main.rs.           *)
(*                                                                         *)
(* The handlers, middleware functions, router-assembly calls and test      *)
(* requests are translated from main.rs.  The engine that the file calls   *)
(* (route table, path matcher, extractor pipeline, response encoding,      *)
(* middleware chain) is not part of the source file; it is modelled from   *)
(* sections 3 and 4 of the specification.                                  *)
(*                                                                         *)
(* Text is modelled by TLA+ strings, a path by the sequence of its         *)
(* segments, a header list by a sequence of <<name, value>> pairs.         *)
(***************************************************************************)
EXTENDS Integers, Sequences, FiniteSets, TLC

VARIABLES
    test,     \* the test function of main.rs whose application is modelled
    prog,     \* the router-assembly calls of that application, in call order
    bi,       \* index of the next assembly call
    router,   \* the route table under construction, then served
    pc,       \* position of the application / of the request in flight
    req,      \* the request in flight
    ep,       \* the endpoint the matcher resolved the request to
    li,       \* middleware layers still to enter (entering) or left (leaving)
    args,     \* the values the extractors produced so far
    ret,      \* the value the endpoint returned
    resp,     \* the response
    trace     \* the hooks and endpoints that ran for the request, in order

vars == <<test, prog, bi, router, pc, req, ep, li, args, ret, resp, trace>>

(***************************************************************************)
(* Bounds of the model.                                                    *)
(***************************************************************************)
\* longest sequence of merge calls / nest calls explored during assembly
MaxCompose == 3

(***************************************************************************)
(* Sequences and header lists.                                             *)
(***************************************************************************)
Range(s) == {s[i] : i \in 1..Len(s)}

RECURSIVE SeqsUpTo(_, _)
SeqsUpTo(S, n) ==
    IF n = 0 THEN {<<>>}
    ELSE LET shorter == SeqsUpTo(S, n - 1)
         IN  shorter \cup {Append(s, x) : s \in shorter, x \in S}

HasHeader(headers, name) == \E i \in 1..Len(headers) : headers[i][1] = name

\* HeaderMap::get: the first value stored under the name
GetHeader(headers, name) ==
    headers[CHOOSE i \in 1..Len(headers) :
                /\ headers[i][1] = name
                /\ \A j \in 1..(i - 1) : headers[j][1] # name][2]

HeaderValues(headers, name) ==
    SelectSeq(headers, LAMBDA h : h[1] = name)

\* HeaderMap::append: keeps what is stored under the name and adds the value
AppendHeader(headers, name, value) == Append(headers, <<name, value>>)

\* HeaderMap::insert: the value replaces whatever is stored under the name
InsertHeader(headers, name, value) ==
    Append(SelectSeq(headers, LAMBDA h : h[1] # name), <<name, value>>)

(***************************************************************************)
(* Paths and route patterns.                                               *)
(***************************************************************************)
RECURSIVE PathStr(_)
PathStr(p) == IF p = <<>> THEN "" ELSE "/" \o Head(p) \o PathStr(Tail(p))

UriPath(p) == IF p = <<>> THEN "/" ELSE PathStr(p)

IsParam(seg) == seg \in {"{id}", "{id_category}"}

PatternMatches(pattern, path) ==
    /\ Len(pattern) = Len(path)
    /\ \A i \in 1..Len(pattern) :
          IF IsParam(pattern[i]) THEN path[i] # "" ELSE pattern[i] = path[i]

\* "{name}" -> "name"
ParamName(seg) == IF seg = "{id}" THEN "id" ELSE "id_category"

\* percent-decoding of one path segment
PercentDecode(seg) == IF seg = "a%20b" THEN "a b" ELSE seg

\* the ordered mapping parameter name -> decoded segment, in pattern order
RECURSIVE Params(_, _)
Params(pattern, path) ==
    IF pattern = <<>> THEN <<>>
    ELSE LET n    == Len(pattern)
             rest == Params(SubSeq(pattern, 1, n - 1), SubSeq(path, 1, n - 1))
         IN  IF IsParam(pattern[n])
             THEN Append(rest, <<ParamName(pattern[n]), PercentDecode(path[n])>>)
             ELSE rest

\* number of literal segments among the first n: literal beats parameter
RECURSIVE Literals(_, _)
Literals(pattern, n) ==
    IF n = 0 THEN 0
    ELSE Literals(pattern, n - 1) + (IF IsParam(pattern[n]) THEN 0 ELSE 1)

(***************************************************************************)
(* Route table and its assembly operations.                                *)
(***************************************************************************)
NewRouter ==
    [routes |-> {}, fallback |-> "default_not_found", fallbackLayers |-> <<>>,
     mna |-> "default_method_not_allowed", panicked |-> FALSE]

MkRoute(method, pattern, handler) ==
    [method |-> method, pattern |-> pattern, handler |-> handler,
     layers |-> <<>>]

MethodsOverlap(m1, m2) == m1 = m2 \/ m1 = "ANY" \/ m2 = "ANY"

Overlaps(a, b) == a.pattern = b.pattern /\ MethodsOverlap(a.method, b.method)

AddRoutes(r, new) ==
    IF \/ \E a \in r.routes, b \in new : Overlaps(a, b)
       \/ \E a \in new, b \in new : a # b /\ Overlaps(a, b)
    THEN [r EXCEPT !.panicked = TRUE]
    ELSE [r EXCEPT !.routes = @ \cup new]

RouterRoute(r, pattern, method, handler) ==
    AddRoutes(r, {MkRoute(method, pattern, handler)})

RouterMerge(r, other) ==
    LET added == AddRoutes(r, other.routes)
    IN  IF added.panicked THEN added
        ELSE [added EXCEPT
                 !.fallback = IF @ = NewRouter.fallback THEN other.fallback
                                                        ELSE @,
                 !.mna = IF @ = NewRouter.mna THEN other.mna ELSE @]

RouterNest(r, prefix, sub) ==
    AddRoutes(r, {[x EXCEPT !.pattern = prefix \o @] : x \in sub.routes})

RouterFallback(r, handler) == [r EXCEPT !.fallback = handler]

RouterMethodNotAllowedFallback(r, handler) == [r EXCEPT !.mna = handler]

RouterLayer(r, layer) ==
    [r EXCEPT !.routes = {[x EXCEPT !.layers = Append(@, layer)] : x \in @},
              !.fallbackLayers = Append(@, layer)]

(***************************************************************************)
(* Path matcher: method + path -> Match | NoMatch | MethodNotAllowed.      *)
(***************************************************************************)
MatchingPatterns(r, path) ==
    {x.pattern : x \in {y \in r.routes : PatternMatches(y.pattern, path)}}

\* literal segments take priority over parameter segments, leftmost first
MoreSpecific(p, q) ==
    \E i \in 1..Len(p) :
        /\ Literals(p, i) > Literals(q, i)
        /\ \A j \in 1..(i - 1) : Literals(p, j) = Literals(q, j)

BestPattern(r, path) ==
    CHOOSE p \in MatchingPatterns(r, path) :
        \A q \in MatchingPatterns(r, path) : ~MoreSpecific(q, p)

Resolve(r, method, path) ==
    IF MatchingPatterns(r, path) = {}
    THEN [kind |-> "NoMatch", handler |-> r.fallback,
          layers |-> r.fallbackLayers, pattern |-> <<>>, params |-> <<>>]
    ELSE LET best    == BestPattern(r, path)
             onPath  == {x \in r.routes : x.pattern = best}
             allowed == {x \in onPath : MethodsOverlap(x.method, method)}
         IN  IF allowed = {}
             THEN [kind |-> "MethodNotAllowed", handler |-> r.mna,
                   layers |-> (CHOOSE x \in onPath : TRUE).layers,
                   pattern |-> best, params |-> <<>>]
             ELSE LET x == CHOOSE y \in allowed : TRUE
                  IN  [kind |-> "Match", handler |-> x.handler,
                       layers |-> x.layers, pattern |-> best,
                       params |-> Params(best, path)]

(***************************************************************************)
(* The applications assembled by the test functions of main.rs.            *)
(***************************************************************************)
Tests ==
    {"test_json", "test_json_error", "test_response_json",
     "test_response_tupple3", "test_cookie_response", "test_middleware",
     "test_error_handling", "test_unexpected_handling",
     "test_multiple_routes", "test_multiple_route_nest", "test_fallback",
     "test_path_parameter", "into_response"}

Op(op, pattern, method, handler) ==
    [op |-> op, pattern |-> pattern, method |-> method, handler |-> handler]

\* first_route registered with post instead of get
first_route_post == RouterRoute(NewRouter, <<"first">>, "POST", "hello_world")

\* second_route registered on the path of first_route
second_route_on_first == RouterRoute(NewRouter, <<"first">>, "GET", "hello_world")

\* let first_route = ...; let second_route = ...;
first_route == RouterRoute(NewRouter, <<"first">>, "GET", "hello_world")

second_route == RouterRoute(NewRouter, <<"second">>, "GET", "hello_world")

SubRouter(name) == IF name = "first_route" THEN first_route ELSE second_route

SubRouters == {"first_route", "second_route"}

Prefixes == {<<"api", "users">>, <<"api", "products">>}

\* the route registered on /products/{id_category}/categories/{id}
test_path_parameter_app_swapped ==
    <<Op("route", <<"products", "{id_category}", "categories", "{id}">>, "GET",
         "path_parameter_hello_world")>>

test_path_parameter_app ==
    <<Op("route", <<"products", "{id}", "categories", "{id_category}">>, "GET",
         "path_parameter_hello_world")>>

test_json_app ==
    <<Op("route", <<"post">>, "GET", "json_hello_world")>>

test_json_error_app ==
    <<Op("route", <<"post">>, "POST", "json_error_hello_world")>>

test_response_json_app ==
    <<Op("route", <<"get">>, "GET", "response_json_hello_world")>>

test_response_tupple3_app ==
    <<Op("route", <<"get">>, "GET", "response_tupple3_hello_world")>>

test_cookie_response_app ==
    <<Op("route", <<"get">>, "GET", "cookie_response_hello_world")>>

\* the two layers registered in the opposite order
test_middleware_app_swapped ==
    <<Op("route", <<"get">>, "GET", "middleware_hello_world"),
      Op("layer", <<>>, "", "from_fn(log_middleware)"),
      Op("layer", <<>>, "", "map_request(request_id_middleware)")>>

test_middleware_app ==
    <<Op("route", <<"get">>, "GET", "middleware_hello_world"),
      Op("layer", <<>>, "", "map_request(request_id_middleware)"),
      Op("layer", <<>>, "", "from_fn(log_middleware)")>>

test_error_handling_app ==
    <<Op("route", <<"get">>, "GET", "error_handling_hello_world"),
      Op("route", <<"post">>, "POST", "error_handling_hello_world")>>

test_unexpected_handling_app ==
    <<Op("route_service", <<"get">>, "ANY", "HandleError(route)")>>

test_multiple_routes_app ==
    <<Op("merge", <<>>, "", "first_route"),
      Op("merge", <<>>, "", "second_route")>>

test_multiple_route_nest_app ==
    <<Op("nest", <<"api", "users">>, "", "first_route"),
      Op("nest", <<"api", "products">>, "", "second_route")>>

test_fallback_app ==
    <<Op("merge", <<>>, "", "first_route"),
      Op("merge", <<>>, "", "second_route"),
      Op("fallback", <<>>, "", "fallback"),
      Op("method_not_allowed_fallback", <<>>, "", "not_allowed")>>

SourceProgram(t) ==
    CASE t = "test_path_parameter" -> test_path_parameter_app
      [] t = "test_json" -> test_json_app
      [] t = "test_json_error" -> test_json_error_app
      [] t = "test_response_json" -> test_response_json_app
      [] t = "test_response_tupple3" -> test_response_tupple3_app
      [] t = "test_cookie_response" -> test_cookie_response_app
      [] t = "test_middleware" -> test_middleware_app
      [] t = "test_error_handling" -> test_error_handling_app
      [] t = "test_unexpected_handling" -> test_unexpected_handling_app
      [] t = "test_multiple_routes" -> test_multiple_routes_app
      [] t = "test_multiple_route_nest" -> test_multiple_route_nest_app
      [] t = "test_fallback" -> test_fallback_app
      [] OTHER -> <<>>

\* Inputs of merge and nest: every sequence of up to MaxCompose calls over the
\* sub-routers (and prefixes) of main.rs, the sequence of main.rs among them.
MergePrograms ==
    SeqsUpTo({Op("merge", <<>>, "", s) : s \in SubRouters}, MaxCompose)

NestPrograms ==
    SeqsUpTo({Op("nest", p, "", s) : p \in Prefixes, s \in SubRouters},
             MaxCompose)

Programs(t) ==
    {SourceProgram(t)}
    \cup (CASE t = "test_multiple_routes" -> MergePrograms
            [] t = "test_multiple_route_nest" -> NestPrograms
            [] OTHER -> {})

(***************************************************************************)
(* Requests as the test client builds them.                                *)
(***************************************************************************)
Methods == {"GET", "POST"}

Usernames == {"Fadel", "Eko"}

RequestPaths ==
    {<<"get">>, <<"post">>, <<"first">>, <<"second">>, <<"wrong">>,
     <<"api", "users", "first">>, <<"api", "products", "second">>,
     <<"api", "users", "second">>, <<"api", "products", "first">>,
     <<"products", "1", "categories", "2">>,
     <<"products", "2", "categories", "1">>,
     <<"products", "a%20b", "categories", "2">>,
     <<"products", "", "categories", "2">>,
     <<"products", "1", "category", "2">>,
     <<"products", "1", "categories">>}

NoBody == [kind |-> "empty", username |-> "", text |-> ""]

BareRequest(method, path) ==
    [method |-> method, path |-> path, ctype |-> "", body |-> NoBody,
     headers |-> <<>>, query |-> <<>>]

\* .json(&request): a LoginRequest encoded as JSON, declared application/json
WithJson(r, username) ==
    [r EXCEPT !.ctype = "application/json",
              !.body = [kind |-> "json", username |-> username, text |-> ""]]

\* .text(..): a text body, declared text/plain
WithText(r, text) ==
    [r EXCEPT !.ctype = "text/plain",
              !.body = [kind |-> "text", username |-> "", text |-> text]]

WithQueryParam(r, key, value) ==
    [r EXCEPT !.query = Append(@, <<key, value>>)]

WithHeader(r, name, value) ==
    [r EXCEPT !.headers = AppendHeader(@, name, value)]

ClientHeaders == {<<"Cookie", "name=Eko">>, <<"X-Request-Id", "999">>}

Requests ==
    LET bare == {BareRequest(m, p) : m \in Methods, p \in RequestPaths}
    IN  bare
        \cup {WithJson(r, u) : r \in bare, u \in Usernames}
        \cup {WithText(r, "tidak valid") : r \in bare}
        \cup {WithQueryParam(r, "name", u) : r \in bare, u \in Usernames}
        \cup {WithHeader(r, h[1], h[2]) : r \in bare, h \in ClientHeaders}

NoReq == BareRequest("", <<>>)

(***************************************************************************)
(* Extractor pipeline.                                                     *)
(***************************************************************************)
Extractor(kind, wrapped) == [kind |-> kind, wrapped |-> wrapped]

Extracted(v) == [ok |-> TRUE, val |-> v, rej |-> ""]

Rejected(rej) == [ok |-> FALSE, val |-> "", rej |-> rej]

\* Json<LoginRequest>: the declared content type must be JSON, then the
\* bytes must decode to the target shape
ExtractJson(r) ==
    IF r.ctype # "application/json" THEN Rejected("MissingJsonContentType")
    ELSE IF r.body.kind # "json" THEN Rejected("JsonSyntaxError")
    ELSE Extracted([username |-> r.body.username])

\* Path<(String, String)>: the two values of the match result, in order
ExtractPath(m) ==
    IF Len(m.params) # 2 THEN Rejected("PathExtractionError")
    ELSE Extracted(<<m.params[1][2], m.params[2][2]>>)

ExtractOne(kind, r, m) ==
    CASE kind = "Method" -> Extracted(r.method)
      [] kind = "Path" -> ExtractPath(m)
      [] kind = "HeaderMap" -> Extracted(r.headers)
      [] kind = "Query" -> Extracted(r.query)
      [] kind = "Request" -> Extracted(r)
      [] kind = "Json" -> ExtractJson(r)

\* extraction order is binding-declaration order
NextExtractor(decl, done) == decl[Len(done) + 1]

\* extraction that never short-circuits
Outcome_always_bind(e, got) == "bind"

\* a failing required extractor short-circuits; a result-wrapped one never
Outcome(e, got) == IF got.ok \/ e.wrapped THEN "bind" ELSE "reject"

\* the payload bound as Json<LoginRequest>, without the Result
json_error_bindings_required == <<Extractor("Json", FALSE)>>

\* async fn hello_world(payload: Result<Json<LoginRequest>, JsonRejection>)
json_error_bindings == <<Extractor("Json", TRUE)>>

\* the body bound through a Result, as in test_json_error
json_bindings_wrapped == <<Extractor("Json", TRUE)>>

\* async fn hello_world(Json(request): Json<LoginRequest>)
json_bindings == <<Extractor("Json", FALSE)>>

\* the bindings each handler of main.rs declares, in declaration order
Extractors(h) ==
    CASE h = "hello_world" -> <<Extractor("Method", FALSE)>>
      [] h = "path_parameter_hello_world" -> <<Extractor("Path", FALSE)>>
      [] h = "fallback" -> <<Extractor("Request", FALSE)>>
      [] h = "not_allowed" -> <<Extractor("Request", FALSE)>>
      [] h = "json_hello_world" -> json_bindings
      [] h = "json_error_hello_world" -> json_error_bindings
      [] h = "cookie_response_hello_world" -> <<Extractor("Query", FALSE)>>
      [] h = "middleware_hello_world" ->
             <<Extractor("Method", FALSE), Extractor("HeaderMap", FALSE)>>
      [] h = "error_handling_hello_world" -> <<Extractor("Method", FALSE)>>
      [] h = "HandleError(route)" -> <<Extractor("Request", FALSE)>>
      [] OTHER -> <<>>

(***************************************************************************)
(* Values a handler returns, and responses.                                *)
(***************************************************************************)
Part(kind, status, headers, body) ==
    [kind |-> kind, status |-> status, headers |-> headers, body |-> body]

StatusCode(code) == Part("StatusCode", code, <<>>, "")

HeaderMap(headers) == Part("HeaderMap", 0, headers, "")

ResponseTemplate(status, headers) == Part("Response<()>", status, headers, "")

\* Cookie::new(name, value) added to an empty jar
CookieJar(name, value) ==
    Part("CookieJar", 0, <<<<"Set-Cookie", name \o "=" \o value>>>>, "")

String(text) ==
    Part("String", 0, <<<<"content-type", "text/plain; charset=utf-8">>>>, text)

Json(text) == Part("Json", 0, <<<<"content-type", "application/json">>>>, text)

FullResponse(status, headers, body) == Part("Response", status, headers, body)

Value(parts) ==
    [variant |-> "value", parts |-> parts, code |-> 0, message |-> ""]

ErrAppError(code, message) ==
    [variant |-> "AppError", parts |-> <<>>, code |-> code,
     message |-> message]

Failure(message) ==
    [variant |-> "failure", parts |-> <<>>, code |-> 0, message |-> message]

Panic == [variant |-> "panic", parts |-> <<>>, code |-> 0, message |-> ""]

NoRet == [variant |-> "none", parts |-> <<>>, code |-> 0, message |-> ""]

Response(status, headers, body) ==
    [kind |-> "response", status |-> status, headers |-> headers,
     body |-> body]

Aborted == [kind |-> "panic", status |-> 0, headers |-> <<>>, body |-> ""]

NoResp == [kind |-> "none", status |-> 0, headers |-> <<>>, body |-> ""]

(***************************************************************************)
(* Response encoding of a composite of response parts.                     *)
(***************************************************************************)
SetsStatus(part) == part.status # 0

\* status code first: the one a part sets, 200 if no part sets one
EncodeStatus(parts) ==
    IF \E i \in 1..Len(parts) : SetsStatus(parts[i])
    THEN parts[CHOOSE i \in 1..Len(parts) :
                   /\ SetsStatus(parts[i])
                   /\ \A j \in 1..(i - 1) : ~SetsStatus(parts[j])].status
    ELSE 200

\* a later part's headers are appended to those of the earlier parts
MergeHeaders(earlier, later) == earlier \o later

RECURSIVE EncodeHeaders(_)
EncodeHeaders(parts) ==
    IF parts = <<>> THEN <<>>
    ELSE MergeHeaders(EncodeHeaders(SubSeq(parts, 1, Len(parts) - 1)),
                      parts[Len(parts)].headers)

\* exactly one body-producing part, the last component, supplies the body
EncodeBody(parts) == parts[Len(parts)].body

IntoResponse(parts) ==
    Response(EncodeStatus(parts), EncodeHeaders(parts), EncodeBody(parts))

(***************************************************************************)
(* Handlers and middleware functions of main.rs.                           *)
(***************************************************************************)
\* format!("{:?}", rejection)
DebugRejection(rej) == rej \o "(" \o rej \o ")"

\* LoginResponse { token } serialised as JSON
LoginResponseJson(token) == "{\"token\":\"" \o token \o "\"}"

hello_world(method) == Value(<<String("Hello " \o method)>>)

\* fallback answering without its status part
fallback_without_status(request) ==
    Value(<<String("Page " \o UriPath(request.path) \o " is not found")>>)

fallback(request) ==
    Value(<<StatusCode(404),
            String("Page " \o UriPath(request.path) \o " is not found")>>)

\* not_allowed answering with the status of fallback
not_allowed_as_not_found(request) ==
    Value(<<StatusCode(404),
            String("Page " \o UriPath(request.path) \o " is not found")>>)

not_allowed(request) ==
    Value(<<StatusCode(405),
            String("Page " \o UriPath(request.path) \o " is not found")>>)

path_parameter_hello_world(id, id_category) ==
    Value(<<String("Product " \o id \o ", Category " \o id_category)>>)

json_hello_world(request) ==
    Value(<<String("Hello " \o request.username)>>)

json_error_hello_world(payload) ==
    IF payload.ok
    THEN Value(<<String("Hello " \o payload.val.username)>>)
    ELSE Value(<<String("Error " \o DebugRejection(payload.rej))>>)

response_json_hello_world ==
    Value(<<ResponseTemplate(200, <<<<"X-Owner", "Fadel">>>>),
            Json(LoginResponseJson("token"))>>)

response_tupple3_hello_world ==
    Value(<<StatusCode(200),
            HeaderMap(InsertHeader(<<>>, "X-Owner", "Fadel")),
            Json(LoginResponseJson("token"))>>)

cookie_response_hello_world(query) ==
    IF ~HasHeader(query, "name") THEN Panic
    ELSE LET name == GetHeader(query, "name")
         IN  Value(<<CookieJar("name", name), String("Hello " \o name)>>)

middleware_hello_world(method, header_map) ==
    IF ~HasHeader(header_map, "X-Request-Id") THEN Panic
    ELSE Value(<<String("Hello " \o method \o " "
                        \o GetHeader(header_map, "X-Request-Id"))>>)

error_handling_hello_world(method) ==
    IF method = "POST" THEN Value(<<String("OK")>>)
    ELSE ErrAppError(400, "Bad Request")

route(request) ==
    IF request.method = "POST"
    THEN Value(<<FullResponse(200, <<>>, "OK")>>)
    ELSE Failure("Bad Request")

\* handle_error dropping the error's text
handle_error_without_message(err) ==
    Value(<<StatusCode(500), String("Internal Server Error: ")>>)

handle_error(err) ==
    Value(<<StatusCode(500), String("Internal Server Error: " \o err)>>)

request_id_middleware(request) ==
    [request EXCEPT !.headers = InsertHeader(@, "X-Request-Id", "123456")]

\* self.code as u16
AsU16(code) == code % 65536

\* StatusCode::from_u16 accepts 100..=999
ValidStatus(n) == 100 <= n /\ n <= 999

\* AppError::into_response: the request is aborted when the unwrap panics
AppErrorIntoResponse(code, message) ==
    IF ValidStatus(AsU16(code))
    THEN IntoResponse(<<StatusCode(AsU16(code)), String(message)>>)
    ELSE Aborted

\* the engine's own answers
DefaultNotFound == Value(<<StatusCode(404), String("")>>)

DefaultMethodNotAllowed == Value(<<StatusCode(405), String("")>>)

\* default rejection-to-response mapping: the status of the error kind, the
\* rejection's message (here its name) as body
RejectionResponse(rej) ==
    IF rej = "MissingJsonContentType"
    THEN Value(<<StatusCode(415), String(rej)>>)
    ELSE Value(<<StatusCode(400), String(rej)>>)

\* invoking the endpoint with the extracted arguments
Call(h, a) ==
    CASE h = "hello_world" -> hello_world(a[1].val)
      [] h = "path_parameter_hello_world" ->
             path_parameter_hello_world(a[1].val[1], a[1].val[2])
      [] h = "fallback" -> fallback(a[1].val)
      [] h = "not_allowed" -> not_allowed(a[1].val)
      [] h = "json_hello_world" -> json_hello_world(a[1].val)
      [] h = "json_error_hello_world" -> json_error_hello_world(a[1])
      [] h = "response_json_hello_world" -> response_json_hello_world
      [] h = "response_tupple3_hello_world" -> response_tupple3_hello_world
      [] h = "cookie_response_hello_world" ->
             cookie_response_hello_world(a[1].val)
      [] h = "middleware_hello_world" ->
             middleware_hello_world(a[1].val, a[2].val)
      [] h = "error_handling_hello_world" ->
             error_handling_hello_world(a[1].val)
      [] h = "HandleError(route)" -> route(a[1].val)
      [] h = "default_not_found" -> DefaultNotFound
      [] h = "default_method_not_allowed" -> DefaultMethodNotAllowed

(***************************************************************************)
(* Inputs of the response encoders taken on their own.                     *)
(***************************************************************************)
AppErrorCodes == {-1, 0, 99, 100, 200, 400, 404, 500, 999, 1000, 65535, 65936}

AppErrorMessages == {"Bad Request", "Not Found"}

Returns == {ErrAppError(c, m) : c \in AppErrorCodes, m \in AppErrorMessages}

(***************************************************************************)
(* State machine.                                                          *)
(***************************************************************************)
NoEp ==
    [kind |-> "none", handler |-> "", layers |-> <<>>, pattern |-> <<>>,
     params |-> <<>>]

Init ==
    /\ test \in Tests
    /\ prog \in Programs(test)
    /\ bi = 1
    /\ router = NewRouter
    /\ pc = IF test = "into_response" THEN "unit" ELSE "build"
    /\ req = NoReq
    /\ ep = NoEp
    /\ li = 0
    /\ args = <<>>
    /\ ret = NoRet
    /\ resp = NoResp
    /\ trace = <<>>

\* one assembly call: a panic of the call ends the application
Assemble(op, r) ==
    /\ pc = "build"
    /\ bi <= Len(prog)
    /\ prog[bi].op = op
    /\ router' = r
    /\ IF r.panicked THEN pc' = "panicked" /\ bi' = bi
                     ELSE pc' = "build" /\ bi' = bi + 1
    /\ UNCHANGED <<test, prog, req, ep, li, args, ret, resp, trace>>

BuildRoute ==
    Assemble("route",
             RouterRoute(router, prog[bi].pattern, prog[bi].method,
                         prog[bi].handler))

BuildRouteService ==
    Assemble("route_service",
             RouterRoute(router, prog[bi].pattern, prog[bi].method,
                         prog[bi].handler))

BuildMerge ==
    Assemble("merge", RouterMerge(router, SubRouter(prog[bi].handler)))

BuildNest ==
    Assemble("nest",
             RouterNest(router, prog[bi].pattern, SubRouter(prog[bi].handler)))

BuildFallback ==
    Assemble("fallback", RouterFallback(router, prog[bi].handler))

BuildMethodNotAllowedFallback ==
    Assemble("method_not_allowed_fallback",
             RouterMethodNotAllowedFallback(router, prog[bi].handler))

BuildLayer == Assemble("layer", RouterLayer(router, prog[bi].handler))

\* TestServer::new(app)
Serve ==
    /\ pc = "build"
    /\ bi > Len(prog)
    /\ pc' = "idle"
    /\ UNCHANGED <<test, prog, bi, router, req, ep, li, args, ret, resp, trace>>

SendRequest ==
    /\ pc = "idle"
    /\ \E r \in Requests : req' = r
    /\ pc' = "matching"
    /\ UNCHANGED <<test, prog, bi, router, ep, li, args, ret, resp, trace>>

\* where a request goes once every layer has been entered
AfterEntering(e) ==
    IF Len(Extractors(e.handler)) = 0 THEN "calling" ELSE "extracting"

MatchRequest ==
    /\ pc = "matching"
    /\ ep' = Resolve(router, req.method, req.path)
    /\ li' = Len(ep'.layers)
    /\ pc' = IF li' = 0 THEN AfterEntering(ep') ELSE "entering"
    /\ UNCHANGED <<test, prog, bi, router, req, args, ret, resp, trace>>

\* log_middleware up to next.run(request)
LogMiddlewareReceive ==
    /\ pc = "entering"
    /\ li > 0
    /\ ep.layers[li] = "from_fn(log_middleware)"
    /\ trace' = Append(trace, "log_middleware:receive")
    /\ li' = li - 1
    /\ pc' = IF li' = 0 THEN AfterEntering(ep) ELSE "entering"
    /\ UNCHANGED <<test, prog, bi, router, req, ep, args, ret, resp>>

RequestIdMiddleware ==
    /\ pc = "entering"
    /\ li > 0
    /\ ep.layers[li] = "map_request(request_id_middleware)"
    /\ req' = request_id_middleware(req)
    /\ trace' = Append(trace, "request_id_middleware")
    /\ li' = li - 1
    /\ pc' = IF li' = 0 THEN AfterEntering(ep) ELSE "entering"
    /\ UNCHANGED <<test, prog, bi, router, ep, args, ret, resp>>

\* the next extractor in declaration order; a failing required extractor
\* ends extraction and answers with the rejection's response
Extract ==
    /\ pc = "extracting"
    /\ LET decl == Extractors(ep.handler)
           e    == NextExtractor(decl, args)
           got  == ExtractOne(e.kind, req, ep)
       IN  /\ trace' = Append(trace, "extract:" \o e.kind)
           /\ IF Outcome(e, got) = "bind"
              THEN /\ args' = Append(args, got)
                   /\ ret' = ret
                   /\ pc' = IF Len(args') = Len(decl) THEN "calling"
                                                      ELSE "extracting"
              ELSE /\ args' = args
                   /\ ret' = RejectionResponse(got.rej)
                   /\ pc' = "encoding"
    /\ UNCHANGED <<test, prog, bi, router, req, ep, li, resp>>

\* the handler body (or the inner service of a route service) runs
CallHandler ==
    /\ pc = "calling"
    /\ LET endpoint == Call(ep.handler, args)
       IN  /\ ret' = endpoint
           /\ trace' = Append(trace, "handler:" \o ep.handler)
           /\ IF endpoint.variant = "panic"
              THEN pc' = "done" /\ resp' = Aborted
              ELSE /\ resp' = resp
                   /\ pc' = IF endpoint.variant = "failure"
                            THEN "handling_error" ELSE "encoding"
    /\ UNCHANGED <<test, prog, bi, router, req, ep, li, args>>

\* HandleError: the failure of the inner service goes to handle_error
HandleError ==
    /\ pc = "handling_error"
    /\ ret' = handle_error(ret.message)
    /\ trace' = Append(trace, "handle_error")
    /\ pc' = "encoding"
    /\ UNCHANGED <<test, prog, bi, router, req, ep, li, args, resp>>

\* the next layer, from the endpoint outwards, that observes the response
NextLeaving(layers, from) ==
    IF \E j \in (from + 1)..Len(layers) : layers[j] = "from_fn(log_middleware)"
    THEN CHOOSE j \in (from + 1)..Len(layers) :
             /\ layers[j] = "from_fn(log_middleware)"
             /\ \A k \in (from + 1)..(j - 1) :
                    layers[k] # "from_fn(log_middleware)"
    ELSE Len(layers) + 1

Encode ==
    /\ pc = "encoding"
    /\ resp' = IF ret.variant = "AppError"
               THEN AppErrorIntoResponse(ret.code, ret.message)
               ELSE IntoResponse(ret.parts)
    /\ li' = NextLeaving(ep.layers, 0)
    /\ pc' = IF resp'.kind = "panic" \/ li' > Len(ep.layers) THEN "done"
                                                              ELSE "leaving"
    /\ UNCHANGED <<test, prog, bi, router, req, ep, args, ret, trace>>

\* log_middleware after next.run(request) returned
LogMiddlewareSend ==
    /\ pc = "leaving"
    /\ trace' = Append(trace, "log_middleware:send")
    /\ li' = NextLeaving(ep.layers, li)
    /\ pc' = IF li' > Len(ep.layers) THEN "done" ELSE "leaving"
    /\ UNCHANGED <<test, prog, bi, router, req, ep, args, ret, resp>>

\* the response is handed back; the request's state is discarded
Deliver ==
    /\ pc = "done"
    /\ pc' = IF test = "into_response" THEN "unit" ELSE "idle"
    /\ req' = NoReq
    /\ ep' = NoEp
    /\ li' = 0
    /\ args' = <<>>
    /\ ret' = NoRet
    /\ resp' = NoResp
    /\ trace' = <<>>
    /\ UNCHANGED <<test, prog, bi, router>>

\* a handler returned the value: the encoder is applied to it
ReturnValue ==
    /\ pc = "unit"
    /\ \E r \in Returns : ret' = r
    /\ pc' = "encoding"
    /\ UNCHANGED <<test, prog, bi, router, req, ep, li, args, resp, trace>>

Next ==
    \/ BuildRoute
    \/ BuildRouteService
    \/ BuildMerge
    \/ BuildNest
    \/ BuildFallback
    \/ BuildMethodNotAllowedFallback
    \/ BuildLayer
    \/ Serve
    \/ SendRequest
    \/ MatchRequest
    \/ LogMiddlewareReceive
    \/ RequestIdMiddleware
    \/ Extract
    \/ CallHandler
    \/ HandleError
    \/ Encode
    \/ LogMiddlewareSend
    \/ Deliver
    \/ ReturnValue

Spec == Init /\ [][Next]_vars

(***************************************************************************)
(* Properties.                                                             *)
(***************************************************************************)
\* a request has been resolved and is being served
Resolved == ep.kind # "none"

Ran(h) == ("handler:" \o h) \in Range(trace)

OnPath == {x \in router.routes : PatternMatches(x.pattern, req.path)}

OnPathAndMethod == {x \in OnPath : MethodsOverlap(x.method, req.method)}

NotFoundText == "Page " \o UriPath(req.path) \o " is not found"

IsPrefix(s, t) == Len(s) <= Len(t) /\ s = SubSeq(t, 1, Len(s))

\* C1: a request whose path is the pattern of a registered route but whose
\* method has no route on that path resolves to MethodNotAllowed, never to
\* NoMatch: the method_not_allowed_fallback handler is the endpoint and the
\* one that runs (not_allowed answers 405 with its text), and neither the
\* not-found fallback nor any route handler runs.
C1_MethodNotAllowed ==
    (Resolved /\ OnPath # {} /\ OnPathAndMethod = {}) =>
        /\ ep.kind = "MethodNotAllowed"
        /\ ep.handler = router.mna
        /\ ~Ran(router.fallback)
        /\ \A x \in router.routes : ~Ran(x.handler)
        /\ pc = "done" =>
              /\ Ran(router.mna)
              /\ resp.kind = "response"
              /\ router.mna = "not_allowed" =>
                    resp.status = 405 /\ resp.body = NotFoundText

C1_Witness ==
    /\ pc = "done"
    /\ test = "test_fallback"
    /\ req.method = "POST"
    /\ req.path = <<"first">>
    /\ Ran("not_allowed")
    /\ resp.status = 405
    /\ resp.body = "Page /first is not found"

\* C2: a request whose path matches no registered pattern, whatever its
\* method, is answered by the fallback and by it alone (fallback answers 404
\* "Page <path> is not found") and no route handler runs; a request to a
\* registered method+path pair resolves to a route of that pair and the
\* fallback does not run for it (in the application of test_fallback its
\* handler answers 200 "Hello <method>").
C2_Fallback ==
    /\ (Resolved /\ OnPath = {}) =>
          /\ ep.kind = "NoMatch"
          /\ ep.handler = router.fallback
          /\ ~Ran(router.mna)
          /\ \A x \in router.routes : ~Ran(x.handler)
          /\ pc = "done" =>
                /\ Ran(router.fallback)
                /\ resp.kind = "response"
                /\ router.fallback = "fallback" =>
                      resp.status = 404 /\ resp.body = NotFoundText
    /\ (Resolved /\ OnPathAndMethod # {}) =>
          /\ ep.kind = "Match"
          /\ ep.handler \in {x.handler : x \in OnPathAndMethod}
          /\ ~Ran(router.fallback)
          /\ (pc = "done" /\ router.fallback = "fallback") =>
                /\ Ran(ep.handler)
                /\ resp.status = 200
                /\ resp.body = "Hello " \o req.method

C2_Witness ==
    /\ pc = "done"
    /\ test = "test_fallback"
    /\ req.path = <<"wrong">>
    /\ Ran("fallback")
    /\ resp.status = 404
    /\ resp.body = "Page /wrong is not found"

ExtractEvents ==
    {"extract:" \o k :
        k \in {"Method", "HeaderMap", "Query", "Request", "Json", "Path"}}

\* the hooks and the endpoint that ran, without the extraction steps
Hooks == SelectSeq(trace, LAMBDA e : e \notin ExtractEvents)

OnionOrder(h) ==
    <<"log_middleware:receive", "request_id_middleware", "handler:" \o h,
      "log_middleware:send">>

\* C3: in the application of test_middleware every request passes the hooks in
\* onion order: log_middleware before the call, request_id_middleware, the
\* endpoint, log_middleware after the call; the endpoint therefore always
\* sees X-Request-Id = 123456 (and only that value), and GET /get answers
\* 200 "Hello GET 123456".
C3_OnionOrder ==
    (test = "test_middleware" /\ Resolved) =>
        /\ IsPrefix(Hooks, OnionOrder(ep.handler))
        /\ pc = "done" => Hooks = OnionOrder(ep.handler)
        /\ (pc \in {"extracting", "calling"} \/ Ran(ep.handler)) =>
              HeaderValues(req.headers, "X-Request-Id")
                  = <<<<"X-Request-Id", "123456">>>>
        /\ (pc = "done" /\ req.method = "GET" /\ req.path = <<"get">>) =>
              /\ resp.kind = "response"
              /\ resp.status = 200
              /\ resp.body = "Hello GET 123456"

C3_Witness ==
    /\ pc = "done"
    /\ test = "test_middleware"
    /\ req.method = "GET"
    /\ req.path = <<"get">>
    /\ Hooks = OnionOrder("middleware_hello_world")
    /\ resp.body = "Hello GET 123456"

\* C4: the handler of test_json_error binds its JSON body through a Result:
\* a request whose declared content type is not JSON does not abort, the
\* handler body runs with the rejection and the answer is 200
\* "Error MissingJsonContentType(MissingJsonContentType)"; a request with a
\* JSON content type and a valid JSON body gets 200 "Hello <username>".
C4_JsonError ==
    (ep.handler = "json_error_hello_world" /\ pc = "done") =>
        /\ Ran("json_error_hello_world")
        /\ resp.kind = "response"
        /\ resp.status = 200
        /\ req.ctype # "application/json" =>
              resp.body = "Error MissingJsonContentType(MissingJsonContentType)"
        /\ (req.ctype = "application/json" /\ req.body.kind = "json") =>
              resp.body = "Hello " \o req.body.username

C4_Witness ==
    /\ pc = "done"
    /\ test = "test_json_error"
    /\ req.method = "POST"
    /\ req.path = <<"post">>
    /\ req.ctype = "text/plain"
    /\ Ran("json_error_hello_world")
    /\ resp.status = 200
    /\ resp.body = "Error MissingJsonContentType(MissingJsonContentType)"

\* the extraction steps that ran, in order
Extractions == SelectSeq(trace, LAMBDA e : e \in ExtractEvents)

\* the required bindings of the endpoint that fail on the request
FailingRequired ==
    {i \in 1..Len(Extractors(ep.handler)) :
        /\ ~Extractors(ep.handler)[i].wrapped
        /\ ~ExtractOne(Extractors(ep.handler)[i].kind, req, ep).ok}

\* C5: extractors run in binding-declaration order before the handler body;
\* when a required extractor fails no later extractor runs, the handler body
\* never runs and the answer is the rejection's default response; the handler
\* body runs only when every declared binding has been produced, every
\* required one with a value.
C5_ExtractionOrder ==
    Resolved =>
        LET decl == Extractors(ep.handler)
        IN  /\ Len(Extractions) <= Len(decl)
            /\ \A i \in 1..Len(Extractions) :
                  Extractions[i] = "extract:" \o decl[i].kind
            /\ \A i \in 1..Len(args) : args[i].ok \/ decl[i].wrapped
            /\ Ran(ep.handler) =>
                  /\ Len(args) = Len(decl)
                  /\ Len(Extractions) = Len(decl)
                  /\ \A i, j \in 1..Len(trace) :
                        (trace[i] \in ExtractEvents
                         /\ trace[j] = "handler:" \o ep.handler) => i < j
            /\ (ep.handler = "json_hello_world"
                /\ req.ctype # "application/json") =>
                  /\ args = <<>>
                  /\ ~Ran("json_hello_world")
                  /\ pc \in {"extracting", "encoding", "done"}
            /\ \A i \in FailingRequired :
                  /\ ~Ran(ep.handler)
                  /\ Len(Extractions) <= i
                  /\ Len(args) < i
                  /\ pc = "done" =>
                        resp = IntoResponse(RejectionResponse(
                                   ExtractOne(decl[i].kind, req, ep).rej).parts)

C5_Witness ==
    /\ pc = "done"
    /\ test = "test_json"
    /\ ep.handler = "json_hello_world"
    /\ req.ctype = "text/plain"
    /\ Extractions = <<"extract:Json">>
    /\ ~Ran("json_hello_world")
    /\ resp.body = "MissingJsonContentType"

\* C6: a handler that returns AppError{code, message} is answered with the
\* status equal to code and the body equal to message, for every AppError.
C6_AppErrorStatus ==
    (pc = "done" /\ ret.variant = "AppError") =>
        /\ resp.kind = "response"
        /\ resp.status = ret.code
        /\ resp.body = ret.message

\* C7: on the route service wrapped in HandleError a failure of the inner
\* service never leaves dispatch: it is pending conversion or has been
\* converted by handle_error into 500 "Internal Server Error: <message>";
\* a response of the inner service passes unchanged, without handle_error.
C7_HandleError ==
    /\ ret.variant = "failure" => pc = "handling_error"
    /\ (ep.handler = "HandleError(route)" /\ pc = "done") =>
          /\ Ran("HandleError(route)")
          /\ resp.kind = "response"
          /\ ("handle_error" \in Range(trace)) <=> (req.method # "POST")
          /\ IF "handle_error" \in Range(trace)
             THEN /\ resp.status = 500
                  /\ resp.body = "Internal Server Error: Bad Request"
             ELSE /\ resp.status = 200
                  /\ resp.body = "OK"
                  /\ resp.headers = <<>>

C7_Witness ==
    /\ pc = "done"
    /\ test = "test_unexpected_handling"
    /\ req.method = "GET"
    /\ req.path = <<"get">>
    /\ "handle_error" \in Range(trace)
    /\ resp.status = 500
    /\ resp.body = "Internal Server Error: Bad Request"

\* the one route each sub-router of main.rs holds: GET /first, GET /second
RouteOf(sub) == IF sub = "first_route" THEN <<"first">> ELSE <<"second">>

\* the assembly calls that have been made
Made(op) == {i \in 1..(bi - 1) : prog[i].op = op}

IsSourceNest ==
    /\ Len(prog) = 2
    /\ prog[1] = Op("nest", <<"api", "users">>, "", "first_route")
    /\ prog[2] = Op("nest", <<"api", "products">>, "", "second_route")

\* C8: after nest calls, a request matches a route exactly when its method is
\* the nested route's and its path is a nest prefix followed by the pattern of
\* a route of the sub-router nested under that prefix; the handler is the
\* route's own.  After nest("/api/users", first_route) and
\* nest("/api/products", second_route), GET /api/users/first and
\* GET /api/products/second answer 200 "Hello GET", and /first, /second,
\* /api/users/second and /api/products/first match nothing.
C8_Nest ==
    (test = "test_multiple_route_nest" /\ Resolved) =>
        /\ (ep.kind = "Match") <=>
              /\ req.method = "GET"
              /\ \E i \in Made("nest") :
                    req.path = prog[i].pattern \o RouteOf(prog[i].handler)
        /\ ep.kind = "Match" =>
              /\ ep.handler = "hello_world"
              /\ pc = "done" =>
                    /\ Ran("hello_world")
                    /\ resp.status = 200
                    /\ resp.body = "Hello GET"
        /\ IsSourceNest =>
              /\ (req.method = "GET"
                  /\ req.path \in {<<"api", "users", "first">>,
                                   <<"api", "products", "second">>})
                    => ep.kind = "Match"
              /\ req.path \in {<<"first">>, <<"second">>,
                               <<"api", "users", "second">>,
                               <<"api", "products", "first">>}
                    => ep.kind = "NoMatch" /\ ~Ran("hello_world")

C8_Witness ==
    /\ pc = "done"
    /\ test = "test_multiple_route_nest"
    /\ IsSourceNest
    /\ req.method = "GET"
    /\ req.path = <<"api", "users", "first">>
    /\ Ran("hello_world")
    /\ resp.status = 200
    /\ resp.body = "Hello GET"

\* C9: merging yields the union without shadowing.  No router holds two
\* routes with the same method and pattern; no merge that adds a route whose
\* method and pattern the router already holds completes, assembly panics at
\* such a merge and only at such a merge; and after the merges
\* made, every route of every merged table is held with its method, pattern
\* and handler and is the one its request resolves to (GET /first and
\* GET /second answer 200 "Hello GET").
C9_Merge ==
    /\ \A a, b \in router.routes :
          (a.method = b.method /\ a.pattern = b.pattern) => a = b
    /\ test \in {"test_multiple_routes", "test_fallback"} =>
          /\ \A i, j \in Made("merge") :
                prog[i].handler = prog[j].handler => i = j
          /\ pc = "panicked" =>
                /\ bi <= Len(prog)
                /\ prog[bi].op = "merge"
                /\ \E i \in Made("merge") : prog[i].handler = prog[bi].handler
          /\ \A i \in Made("merge") :
                /\ \E x \in router.routes :
                      /\ x.method = "GET"
                      /\ x.pattern = RouteOf(prog[i].handler)
                      /\ x.handler = "hello_world"
                /\ (Resolved /\ req.method = "GET"
                    /\ req.path = RouteOf(prog[i].handler)) =>
                      /\ ep.kind = "Match"
                      /\ ep.handler = "hello_world"
                      /\ pc = "done" =>
                            /\ Ran("hello_world")
                            /\ resp.status = 200
                            /\ resp.body = "Hello GET"

C9_Witness ==
    /\ pc = "done"
    /\ test = "test_multiple_routes"
    /\ prog = <<Op("merge", <<>>, "", "first_route"),
                Op("merge", <<>>, "", "second_route")>>
    /\ req.method = "GET"
    /\ req.path = <<"second">>
    /\ Ran("hello_world")
    /\ resp.status = 200
    /\ resp.body = "Hello GET"

\* the positions of the matched pattern that hold a named parameter
ParamPositions ==
    {i \in 1..Len(ep.pattern) : ep.pattern[i] \in {"{id}", "{id_category}"}}

\* a parameter position's rank among the parameter positions
Rank(i) == Cardinality({j \in ParamPositions : j <= i})

NameAt(i) == IF ep.pattern[i] = "{id}" THEN "id" ELSE "id_category"

\* the text a segment stands for once percent-decoded
Decoded(seg) == IF seg = "a%20b" THEN "a b" ELSE seg

\* what C11 states of a matched pattern with parameters, the expected value
\* of the parameter at position i being Expected[i]
PathParams(Expected) ==
    /\ (Resolved /\ ep.kind = "Match" /\ ParamPositions # {}) =>
          /\ Len(req.path) = Len(ep.pattern)
          /\ Len(ep.params) = Cardinality(ParamPositions)
          /\ \A i \in ParamPositions :
                ep.params[Rank(i)] = <<NameAt(i), Expected[i]>>
          /\ \A i \in (1..Len(ep.pattern)) \ ParamPositions :
                req.path[i] = ep.pattern[i]
    /\ (test = "test_path_parameter" /\ Resolved) =>
          /\ (ep.kind = "NoMatch") <=>
                \/ Len(req.path) # 4
                \/ req.path[1] # "products"
                \/ req.path[3] # "categories"
                \/ req.path[2] = ""
                \/ req.path[4] = ""
          /\ (req.method = "GET"
              /\ req.path = <<"products", "1", "categories", "2">>) =>
                /\ ep.kind = "Match"
                /\ ep.params = <<<<"id", "1">>, <<"id_category", "2">>>>
                /\ pc = "done" =>
                      /\ Ran("path_parameter_hello_world")
                      /\ resp.status = 200
                      /\ resp.body = "Product 1, Category 2"

\* C11 (as stated): for a matched pattern with named parameters the mapping
\* has one entry per named parameter, in pattern order, whose value equals
\* the path segment at the parameter's position, and literal segments match
\* exactly; GET /products/1/categories/2 yields id=1, id_category=2 and
\* 200 "Product 1, Category 2".
C11_RawSegments == PathParams([i \in 1..Len(req.path) |-> req.path[i]])

\* C11 (amended): as above, the value of an entry being the percent-decoded
\* path segment at the parameter's position.
C11_PathParams == PathParams([i \in 1..Len(req.path) |-> Decoded(req.path[i])])

C11_Witness ==
    /\ pc = "done"
    /\ test = "test_path_parameter"
    /\ req.method = "GET"
    /\ req.path = <<"products", "1", "categories", "2">>
    /\ ep.params = <<<<"id", "1">>, <<"id_category", "2">>>>
    /\ Ran("path_parameter_hello_world")
    /\ resp.status = 200
    /\ resp.body = "Product 1, Category 2"

====
